---- MODULE Spec2Model ----
(***************************************************************************)
(* Venue deduplication of ohmguru/gelblasteruk.                            *)
(*                                                                         *)
(*   scripts/dedupe-venues.js            normalizeName, nameSimilar,       *)
(*                                       haversineMeters, sourceWeight,    *)
(*                                       richnessScore, choosePreferred,   *)
(*                                       merge, dedupe                     *)
(*   venue-map-app/pages/api/venues.ts   chooseRicher (sourcePriority,     *)
(*                                       richness), mergeVenues,           *)
(*                                       dedupeVenues                      *)
(*                                                                         *)
(* A JavaScript value is a record [t, s, n]: t is what typeof/null tells   *)
(* ("undefined", "null", "string", "number"), s the characters of a        *)
(* string (a sequence of one-character strings), n the number.             *)
(* Coordinates are whole metres north (lat) and east (lon) of a local      *)
(* origin; at the scale of the two radii the great-circle distance of      *)
(* haversineMeters is the planar distance between such points.             *)
(***************************************************************************)
EXTENDS Integers, Sequences, FiniteSets, TLC

VARIABLES prog, list, pc, i, out, origin, ma, mb, mpc, locals, merged,
          disk, raw

vars == <<prog, list, pc, i, out, origin, ma, mb, mpc, locals, merged,
          disk, raw>>

dedupeVars == <<prog, list, pc, i, out, origin>>

mergeVars == <<ma, mb, mpc, locals, merged>>

mainVars == <<disk, raw>>

-----------------------------------------------------------------------------
(* JavaScript values                                                       *)

Undefined == [t |-> "undefined", s |-> <<>>, n |-> 0]

Null == [t |-> "null", s |-> <<>>, n |-> 0]

Str(chars) == [t |-> "string", s |-> chars, n |-> 0]

Num(k) == [t |-> "number", s |-> <<>>, n |-> k]

\* ToBoolean: undefined, null, "" and 0 are falsy.
Truthy(x) ==
    \/ x.t = "string" /\ x.s # <<>>
    \/ x.t = "number" /\ x.n # 0

\* a || b
Or(a, b) == IF Truthy(a) THEN a ELSE b

\* a ?? b
Nullish(a, b) == IF a.t \in {"undefined", "null"} THEN b ELSE a

\* typeof x === 'number'
IsNumber(x) == x.t = "number"

-----------------------------------------------------------------------------
(* Strings                                                                 *)

UpperCase == <<"A", "B", "C", "D", "E", "F", "G", "H", "I", "J", "K", "L", "M",
               "N", "O", "P", "Q", "R", "S", "T", "U", "V", "W", "X", "Y", "Z">>

LowerCase == <<"a", "b", "c", "d", "e", "f", "g", "h", "i", "j", "k", "l", "m",
               "n", "o", "p", "q", "r", "s", "t", "u", "v", "w", "x", "y", "z">>

Digits == {"0", "1", "2", "3", "4", "5", "6", "7", "8", "9"}

\* [a-z0-9]
AlNum == {LowerCase[k] : k \in 1..Len(LowerCase)} \cup Digits

lowerChar(c) ==
    IF \E k \in 1..Len(UpperCase) : UpperCase[k] = c
    THEN LowerCase[CHOOSE k \in 1..Len(UpperCase) : UpperCase[k] = c]
    ELSE c

\* String.prototype.toLowerCase
toLowerCase(str) == [k \in 1..Len(str) |-> lowerChar(str[k])]

\* String.prototype.includes
includes(hay, needle) ==
    \E k \in 0..(Len(hay) - Len(needle)) :
        SubSeq(hay, k + 1, k + Len(needle)) = needle

\* .replace(/&/g, 'and')
RECURSIVE replaceAmp(_)
replaceAmp(str) ==
    IF str = <<>> THEN <<>>
    ELSE (IF Head(str) = "&" THEN <<"a", "n", "d">> ELSE <<Head(str)>>)
         \o replaceAmp(Tail(str))

RECURSIVE dropNonAlNum(_)
dropNonAlNum(str) ==
    IF str = <<>> \/ Head(str) \in AlNum THEN str ELSE dropNonAlNum(Tail(str))

\* .replace(/[^a-z0-9]+/g, ' ')
RECURSIVE replaceNonAlNum(_)
replaceNonAlNum(str) ==
    IF str = <<>> THEN <<>>
    ELSE IF Head(str) \in AlNum THEN <<Head(str)>> \o replaceNonAlNum(Tail(str))
    ELSE <<" ">> \o replaceNonAlNum(dropNonAlNum(str))

Stopwords == { <<"t", "h", "e">>,
               <<"l", "o", "n", "d", "o", "n">>,
               <<"c", "i", "t", "y">>,
               <<"c", "a", "m", "d", "e", "n">>,
               <<"m", "a", "r", "k", "e", "t">> }

\* \b at position p of str (between str[p-1] and str[p]); the string holds
\* only [a-z0-9 ] when the stopword pattern runs, so a word character is
\* one of AlNum.
wordBoundary(str, p) ==
    LET before == p > 1 /\ str[p - 1] \in AlNum
        after  == p <= Len(str) /\ str[p] \in AlNum
    IN  before # after

stopwordAt(str, p) ==
    { w \in Stopwords :
        /\ p + Len(w) - 1 <= Len(str)
        /\ SubSeq(str, p, p + Len(w) - 1) = w
        /\ wordBoundary(str, p)
        /\ wordBoundary(str, p + Len(w)) }

\* .replace(/\b(the|london|city|camden|market)\b/g, '') scanning from p
RECURSIVE removeStopwords(_, _)
removeStopwords(str, p) ==
    IF p > Len(str) THEN <<>>
    ELSE IF stopwordAt(str, p) # {}
         THEN removeStopwords(str, p + Len(CHOOSE w \in stopwordAt(str, p) : TRUE))
         ELSE <<str[p]>> \o removeStopwords(str, p + 1)

RECURSIVE dropSpaces(_)
dropSpaces(str) ==
    IF str = <<>> \/ Head(str) # " " THEN str ELSE dropSpaces(Tail(str))

\* .replace(/\s+/g, ' ')
RECURSIVE collapseSpaces(_)
collapseSpaces(str) ==
    IF str = <<>> THEN <<>>
    ELSE IF Head(str) # " " THEN <<Head(str)>> \o collapseSpaces(Tail(str))
    ELSE <<" ">> \o collapseSpaces(dropSpaces(str))

RECURSIVE dropTrailingSpaces(_)
dropTrailingSpaces(str) ==
    IF str = <<>> \/ str[Len(str)] # " " THEN str
    ELSE dropTrailingSpaces(SubSeq(str, 1, Len(str) - 1))

\* .trim()
trim(str) == dropTrailingSpaces(dropSpaces(str))

\* normalizeName(name): the normalized characters ('' is <<>>)
normalizeName(name) ==
    IF ~Truthy(name) THEN <<>>
    ELSE trim(collapseSpaces(removeStopwords(
             replaceNonAlNum(replaceAmp(toLowerCase(name.s))), 1)))

\* nameSimilar without the test of line 29 for an empty normalized name
nameSimilarNoEmptyCheck(a, b) ==
    LET na == normalizeName(a)
        nb == normalizeName(b)
    IN  na = nb \/ includes(na, nb) \/ includes(nb, na)

nameSimilar(a, b) ==
    LET na == normalizeName(a)
        nb == normalizeName(b)
    IN  IF na = <<>> \/ nb = <<>> THEN FALSE
        ELSE IF na = nb THEN TRUE
        ELSE includes(na, nb) \/ includes(nb, na)

-----------------------------------------------------------------------------
(* Distance                                                                *)

TightRadius == 60

LooseRadius == 200

abs(x) == IF x < 0 THEN -x ELSE x

\* the least d in lo..hi with d * d >= sq
RECURSIVE ceilSqrt(_, _, _)
ceilSqrt(lo, hi, sq) ==
    IF lo >= hi THEN lo
    ELSE LET mid == (lo + hi) \div 2
         IN  IF mid * mid >= sq THEN ceilSqrt(lo, mid, sq)
             ELSE ceilSqrt(mid + 1, hi, sq)

\* haversineMeters(lat1, lon1, lat2, lon2), rounded up to a whole metre, so
\* that d <= r for a whole r is decided exactly as on the real distance.
haversineMeters(lat1, lon1, lat2, lon2) ==
    LET dLat == lat2 - lat1
        dLon == lon2 - lon1
    IN  ceilSqrt(0, abs(dLat) + abs(dLon), dLat * dLat + dLon * dLon)

-----------------------------------------------------------------------------
(* Venue records                                                           *)

Fields == {"source", "category", "name", "brand", "url", "postcode", "lat",
           "lon", "phone", "rating", "price_level", "business_status",
           "opening_hours"}

Blank == [f \in Fields |-> Undefined]

-----------------------------------------------------------------------------
(* scripts/dedupe-venues.js                                                *)

sGoogle == <<"g", "o", "o", "g", "l", "e">>

sPlaces == <<"p", "l", "a", "c", "e", "s">>

sGmaps == <<"g", "m", "a", "p", "s">>

sOsm == <<"o", "s", "m">>

sOpenstreetmap == <<"o", "p", "e", "n", "s", "t", "r", "e", "e", "t", "m", "a", "p">>

sManual == <<"m", "a", "n", "u", "a", "l">>

sourceWeight(s) ==
    IF ~Truthy(s) THEN 0
    ELSE LET v == toLowerCase(s.s)
         IN  IF includes(v, sGoogle) \/ includes(v, sPlaces) \/ includes(v, sGmaps)
             THEN 3
             ELSE IF includes(v, sOsm) \/ includes(v, sOpenstreetmap) THEN 2
             ELSE 1

richnessScore(v) ==
    (IF Truthy(v.url) THEN 1 ELSE 0)
    + (IF Truthy(v.postcode) THEN 1 ELSE 0)
    + (IF Truthy(v.phone) THEN 1 ELSE 0)
    + (IF Truthy(v.rating) THEN 1 ELSE 0)
    + (IF Truthy(v.price_level) THEN 1 ELSE 0)
    + sourceWeight(v.source)

\* choosePreferred without the source comparison of line 69
choosePreferredByRichness(a, b) ==
    IF richnessScore(b) > richnessScore(a) THEN "b" ELSE "a"

\* choosePreferred(a, b): "a" when the object returned is a, "b" when it is b
choosePreferred(a, b) ==
    LET aw == sourceWeight(a.source)
        bw == sourceWeight(b.source)
    IN  IF aw # bw THEN (IF aw > bw THEN "a" ELSE "b")
        ELSE IF richnessScore(b) > richnessScore(a) THEN "b" ELSE "a"

\* the object literal with || for the coordinates too
mergeFieldsOrCoords(chosen, other) ==
    [f \in Fields |-> Or(chosen[f], other[f])]

\* the object literal both merge functions return
\* the object literal without the fallback to the other record
mergeFieldsChosenOnly(chosen, other) == chosen

mergeFields(chosen, other) ==
    [source          |-> Or(chosen.source, other.source),
     category        |-> Or(chosen.category, other.category),
     name            |-> Or(chosen.name, other.name),
     brand           |-> Or(chosen.brand, other.brand),
     url             |-> Or(chosen.url, other.url),
     postcode        |-> Or(chosen.postcode, other.postcode),
     lat             |-> Nullish(chosen.lat, other.lat),
     lon             |-> Nullish(chosen.lon, other.lon),
     phone           |-> Or(chosen.phone, other.phone),
     rating          |-> Or(chosen.rating, other.rating),
     price_level     |-> Or(chosen.price_level, other.price_level),
     business_status |-> Or(chosen.business_status, other.business_status),
     opening_hours   |-> Or(chosen.opening_hours, other.opening_hours)]

merge(a, b) ==
    IF choosePreferred(a, b) = "a" THEN mergeFields(a, b) ELSE mergeFields(b, a)

\* the predicate without the tight-radius test of line 105
sameVenueLooseOnly(v, o) ==
    IF ~IsNumber(o.lat) \/ ~IsNumber(o.lon) THEN FALSE
    ELSE LET d == haversineMeters(v.lat.n, v.lon.n, o.lat.n, o.lon.n)
         IN  IF d <= LooseRadius /\ nameSimilar(v.name, o.name) THEN TRUE
             ELSE FALSE

\* the predicate given to out.findIndex in dedupe
sameVenue(v, o) ==
    IF ~IsNumber(o.lat) \/ ~IsNumber(o.lon) THEN FALSE
    ELSE LET d == haversineMeters(v.lat.n, v.lon.n, o.lat.n, o.lon.n)
         IN  IF d <= TightRadius THEN TRUE
             ELSE IF d <= LooseRadius /\ nameSimilar(v.name, o.name) THEN TRUE
             ELSE FALSE

\* findLastIndex in place of findIndex
findLastIndex(arr, v) ==
    IF \E k \in 1..Len(arr) : sameVenue(v, arr[k])
    THEN CHOOSE k \in 1..Len(arr) :
            /\ sameVenue(v, arr[k])
            /\ \A m \in (k + 1)..Len(arr) : ~sameVenue(v, arr[m])
    ELSE 0

\* out.findIndex(...): the 1-based index of the first match, 0 for -1
findIndex(arr, v) ==
    IF \E k \in 1..Len(arr) : sameVenue(v, arr[k])
    THEN CHOOSE k \in 1..Len(arr) :
            /\ sameVenue(v, arr[k])
            /\ \A m \in 1..(k - 1) : ~sameVenue(v, arr[m])
    ELSE 0

\* out.push(v)
push(arr, v) == Append(arr, v)

\* a merge whose result is not stored
setSlotDropped(arr, idx, r) == arr

\* a merge that removes slot idx and appends the merged record
setSlotMoveToEnd(arr, idx, r) ==
    SubSeq(arr, 1, idx - 1) \o SubSeq(arr, idx + 1, Len(arr)) \o <<r>>

\* out[idx] = r
setSlot(arr, idx, r) == [arr EXCEPT ![idx] = r]

\* the typeof test on v.lat alone
ungroupableLatOnly(v) == ~IsNumber(v.lat)

\* the typeof test that opens the loop body of both deduplicators
ungroupable(v) == ~IsNumber(v.lat) \/ ~IsNumber(v.lon)

-----------------------------------------------------------------------------
(* venue-map-app/pages/api/venues.ts                                       *)

PriorityMap == [k \in {sGoogle, sGmaps, sPlaces, sOsm, sManual} |->
                  IF k \in {sGoogle, sGmaps, sPlaces} THEN 3
                  ELSE IF k = sOsm THEN 2 ELSE 1]

sourcePriority(s) ==
    IF Truthy(s)
    THEN (IF toLowerCase(s.s) \in DOMAIN PriorityMap
          THEN PriorityMap[toLowerCase(s.s)] ELSE 0)
    ELSE 0

richness(v) ==
    (IF Truthy(v.url) THEN 1 ELSE 0)
    + (IF Truthy(v.postcode) THEN 1 ELSE 0)
    + (IF Truthy(v.phone) THEN 1 ELSE 0)
    + (IF Truthy(v.rating) THEN 1 ELSE 0)
    + (IF Truthy(v.price_level) THEN 1 ELSE 0)
    + sourcePriority(v.source)

\* chooseRicher(a, b): "a" when the object returned is a, "b" when it is b
chooseRicher(a, b) == IF richness(b) > richness(a) THEN "b" ELSE "a"

mergeVenues(target, incoming) ==
    IF chooseRicher(target, incoming) = "a" THEN mergeFields(target, incoming)
    ELSE mergeFields(incoming, target)

\* the predicate given to out.findIndex in dedupeVenues
sameVenueApi(v, o) ==
    IF ~IsNumber(o.lat) \/ ~IsNumber(o.lon) THEN FALSE
    ELSE LET distance == haversineMeters(v.lat.n, v.lon.n, o.lat.n, o.lon.n)
         IN  IF distance <= LooseRadius /\ nameSimilar(v.name, o.name) THEN TRUE
             ELSE FALSE

findIndexApi(arr, v) ==
    IF \E k \in 1..Len(arr) : sameVenueApi(v, arr[k])
    THEN CHOOSE k \in 1..Len(arr) :
            /\ sameVenueApi(v, arr[k])
            /\ \A m \in 1..(k - 1) : ~sameVenueApi(v, arr[m])
    ELSE 0

-----------------------------------------------------------------------------
(* Inputs                                                                  *)

MaxLen == 3

nRoxyLanes == <<"R", "o", "x", "y", " ", "L", "a", "n", "e", "s">>

nTheRoxyLanesCamden ==
    <<"T", "h", "e", " ", "R", "o", "x", "y", "-", "L", "a", "n", "e", "s",
      ",", " ", "C", "a", "m", "d", "e", "n">>

nEscapeHunt == <<"E", "s", "c", "a", "p", "e", " ", "H", "u", "n", "t">>

nGravity == <<"G", "r", "a", "v", "i", "t", "y">>

nTheLondonMarket ==
    <<"T", "h", "e", " ", "L", "o", "n", "d", "o", "n", " ", "M", "a", "r",
      "k", "e", "t">>

nRoxyAndBar == <<"R", "o", "x", "y", " ", "L", "a", "n", "e", "s", " ", "&",
                 " ", "B", "a", "r">>

sYelp == <<"y", "e", "l", "p">>

sGooglePlaces == <<"G", "o", "o", "g", "l", "e", " ", "P", "l", "a", "c", "e", "s">>

Venue(source, name, lat, lon, url, phone) ==
    [Blank EXCEPT !.source = source, !.name = name, !.lat = lat, !.lon = lon,
                  !.url = url, !.phone = phone]

\* The records a venue_data.json may hold: venues of several sources around
\* one block, some within the tight radius of each other, some within the
\* loose radius only, one far away, two without a coordinate.
VenuePool ==
    { Venue(Str(sOsm), Str(nRoxyLanes), Num(0), Num(0), Str(<<"u", "1">>), Undefined),
      Venue(Str(sGoogle), Str(nEscapeHunt), Num(30), Num(40), Undefined, Str(<<"p", "2">>)),
      Venue(Str(sOsm), Str(nGravity), Num(90), Num(40), Undefined, Undefined),
      Venue(Str(sManual), Str(nTheRoxyLanesCamden), Num(0), Num(150), Undefined, Str(<<"p", "4">>)),
      Venue(Str(sOsm), Str(nTheLondonMarket), Num(100), Num(100), Str(<<"u", "5">>), Undefined),
      Venue(Str(sGoogle), Str(nRoxyLanes), Null, Num(0), Undefined, Undefined),
      Venue(Str(sOsm), Str(nGravity), Num(90), Undefined, Str(<<"u", "7">>), Undefined),
      Venue(Undefined, Str(nRoxyAndBar), Num(0), Num(400), Undefined, Undefined) }

Lists == UNION { [1..n -> VenuePool] : n \in 0..MaxLen }

-----------------------------------------------------------------------------
(* Files and JSON text.  A text is [kind, indent, body]: kind "json" for a  *)
(* JSON array of objects, written with the given indentation, body its     *)
(* objects, each a function from the keys it holds to their values; kind   *)
(* "garbage" for a text that is no JSON (a truncated write included);      *)
(* kind "absent" for a file that does not exist.                           *)

Absent == [kind |-> "absent", indent |-> 0, body |-> <<>>]

Garbage == [kind |-> "garbage", indent |-> 0, body |-> <<>>]

\* JSON.parse of a JSON array text: a key the object lacks reads undefined
parse(text) ==
    [k \in 1..Len(text.body) |->
        [f \in Fields |-> IF f \in DOMAIN text.body[k] THEN text.body[k][f]
                          ELSE Undefined]]

\* the text of an array of records at some indentation: JSON has no
\* undefined, so a key whose value is undefined is left out
jsonText(arr, indent) ==
    [kind |-> "json", indent |-> indent,
     body |-> [k \in 1..Len(arr) |->
                 [f \in { g \in Fields : arr[k][g] # Undefined } |-> arr[k][f]]]]

\* JSON.stringify(arr, null, 2)
stringify(arr) == jsonText(arr, 2)

IdleMain == disk = [file |-> Absent, backup |-> Absent] /\ raw = Absent

-----------------------------------------------------------------------------
(* dedupe(list) and dedupeVenues(input), one loop iteration per step.       *)
(* prog is the function the process runs: the script calls dedupe, the API *)
(* handler calls dedupeVenues.  origin[k] lists the input positions folded *)
(* into out[k], oldest first.                                              *)

NoLocals == [aw |-> 0, bw |-> 0, ar |-> 0, br |-> 0, chosen |-> "none"]

IdleMerge ==
    ma = Blank /\ mb = Blank /\ mpc = "idle" /\ locals = NoLocals /\ merged = Blank

Init ==
    /\ prog \in {"dedupe", "dedupeVenues"}
    /\ list \in Lists
    /\ pc = "loop" /\ i = 1 /\ out = <<>> /\ origin = <<>>
    /\ IdleMerge
    /\ IdleMain

\* dedupe, lines 97-111: the body of the for loop for v = list[i]
DedupeIter ==
    /\ prog = "dedupe" /\ pc = "loop" /\ i <= Len(list)
    /\ LET v == list[i]
           idx == findIndex(out, v)
       IN  IF ungroupable(v)
           THEN /\ out' = push(out, v)
                /\ origin' = push(origin, <<i>>)
           ELSE IF idx >= 1
           THEN /\ out' = setSlot(out, idx, merge(out[idx], v))
                /\ origin' = setSlot(origin, idx, Append(origin[idx], i))
           ELSE /\ out' = push(out, v)
                /\ origin' = push(origin, <<i>>)
    /\ i' = i + 1
    /\ UNCHANGED <<prog, list, pc>>
    /\ UNCHANGED mergeVars
    /\ UNCHANGED mainVars

\* dedupe, line 112: return out
DedupeReturn ==
    /\ prog = "dedupe" /\ pc = "loop" /\ i > Len(list)
    /\ pc' = "done"
    /\ UNCHANGED <<prog, list, i, out, origin>>
    /\ UNCHANGED mergeVars
    /\ UNCHANGED mainVars

\* dedupeVenues, lines 96-113: the body of the for loop for v = input[i]
DedupeVenuesIter ==
    /\ prog = "dedupeVenues" /\ pc = "loop" /\ i <= Len(list)
    /\ LET v == list[i]
           idx == findIndexApi(out, v)
       IN  IF ungroupable(v)
           THEN /\ out' = push(out, v)
                /\ origin' = push(origin, <<i>>)
           ELSE IF idx >= 1
           THEN /\ out' = setSlot(out, idx, mergeVenues(out[idx], v))
                /\ origin' = setSlot(origin, idx, Append(origin[idx], i))
           ELSE /\ out' = push(out, v)
                /\ origin' = push(origin, <<i>>)
    /\ i' = i + 1
    /\ UNCHANGED <<prog, list, pc>>
    /\ UNCHANGED mergeVars
    /\ UNCHANGED mainVars

\* dedupeVenues, line 114: return out
DedupeVenuesReturn ==
    /\ prog = "dedupeVenues" /\ pc = "loop" /\ i > Len(list)
    /\ pc' = "done"
    /\ UNCHANGED <<prog, list, i, out, origin>>
    /\ UNCHANGED mergeVars
    /\ UNCHANGED mainVars

Next == DedupeIter \/ DedupeReturn \/ DedupeVenuesIter \/ DedupeVenuesReturn

Spec == Init /\ [][Next]_vars

\* dedupe(list) as a function: the loop run to its end from an empty out
RECURSIVE dedupeFrom(_, _, _)
dedupeFrom(arr, acc, k) ==
    IF k > Len(arr) THEN acc
    ELSE LET v == arr[k]
             idx == findIndex(acc, v)
         IN  dedupeFrom(arr,
                        IF ungroupable(v) THEN push(acc, v)
                        ELSE IF idx >= 1 THEN setSlot(acc, idx, merge(acc[idx], v))
                        ELSE push(acc, v),
                        k + 1)

dedupe(arr) == dedupeFrom(arr, <<>>, 1)

-----------------------------------------------------------------------------
(* merge(a, b) and mergeVenues(target, incoming) on one pair of records     *)

RichFields == {"url", "postcode", "phone", "rating", "price_level"}

MergeSources == {Undefined, Str(sOsm), Str(sGoogle), Str(sManual), Str(sYelp)}

\* the values field f takes in record who ("a" or "b")
FieldVals(f, who) ==
    IF f \in {"lat", "lon"}
    THEN {Undefined, Null, Num(0), Num(IF who = "a" THEN 51 ELSE 52)}
    ELSE IF f = "source" THEN {Undefined, Str(<<>>), Str(sGooglePlaces)}
    ELSE IF f = "name"
    THEN {Undefined, Str(<<>>), Str(IF who = "a" THEN nRoxyLanes ELSE nGravity)}
    ELSE {Undefined, Str(<<>>), Str(<<f, who>>)}

\* a record of some source, with or without a url
MergeBase(who) ==
    { [Blank EXCEPT !.source = src, !.url = u] :
        src \in MergeSources, u \in {Undefined, Str(<<"url", who>>)} }

InitMerge ==
    /\ \E f \in Fields :
         /\ ma \in { [r EXCEPT ![f] = x] : r \in MergeBase("a"), x \in FieldVals(f, "a") }
         /\ mb \in { [r EXCEPT ![f] = x] : r \in MergeBase("b"), x \in FieldVals(f, "b") }
    /\ mpc = "ready" /\ locals = NoLocals /\ merged = Blank
    /\ prog = "merge" /\ list = <<>> /\ pc = "idle" /\ i = 1
    /\ out = <<>> /\ origin = <<>>
    /\ IdleMain

\* merge(ma, mb), with the locals of its call of choosePreferred
MergeCall ==
    /\ mpc = "ready"
    /\ locals' = [aw |-> sourceWeight(ma.source), bw |-> sourceWeight(mb.source),
                  ar |-> richnessScore(ma), br |-> richnessScore(mb),
                  chosen |-> choosePreferred(ma, mb)]
    /\ merged' = merge(ma, mb)
    /\ mpc' = "merge"
    /\ UNCHANGED <<ma, mb>>
    /\ UNCHANGED dedupeVars
    /\ UNCHANGED mainVars

\* mergeVenues(ma, mb), with the locals of its call of chooseRicher
MergeVenuesCall ==
    /\ mpc = "ready"
    /\ locals' = [aw |-> sourcePriority(ma.source), bw |-> sourcePriority(mb.source),
                  ar |-> richness(ma), br |-> richness(mb),
                  chosen |-> chooseRicher(ma, mb)]
    /\ merged' = mergeVenues(ma, mb)
    /\ mpc' = "mergeVenues"
    /\ UNCHANGED <<ma, mb>>
    /\ UNCHANGED dedupeVars
    /\ UNCHANGED mainVars

NextMerge == MergeCall \/ MergeVenuesCall

SpecMerge == InitMerge /\ [][NextMerge]_vars

\* the deduplicators on a list, or one merge call on a pair of records
NextAll == Next \/ NextMerge

SpecAll == (Init \/ InitMerge) /\ [][NextAll]_vars

-----------------------------------------------------------------------------
(* main() of scripts/dedupe-venues.js: read, parse, back up, dedupe (the    *)
(* loop of DedupeIter and DedupeReturn on list = data), write.  An          *)
(* exception leaves main and ends the process (pc = "threw").               *)

sNotANumber == <<"5", "1", ".", "5">>

\* records of a data file: two venues within the tight radius, one whose
\* lat is a string, one whose lat is null
MainPool ==
    { Venue(Str(sOsm), Str(nRoxyLanes), Num(0), Num(0), Str(<<"u", "1">>), Undefined),
      Venue(Str(sGoogle), Str(nEscapeHunt), Num(30), Num(40), Undefined, Str(<<"p", "2">>)),
      Venue(Str(sOsm), Str(nGravity), Str(sNotANumber), Num(40), Undefined, Undefined),
      Venue(Str(sGoogle), Str(nRoxyLanes), Null, Num(0), Undefined, Undefined) }

MainLists == UNION { [1..n -> MainPool] : n \in 0..MaxLen }

InitMain ==
    /\ disk \in { [file |-> t, backup |-> Absent] :
                    t \in {Absent, Garbage}
                          \cup { jsonText(l, ind) : l \in MainLists, ind \in {0, 2} } }
    /\ raw = Absent
    /\ prog = "dedupe" /\ list = <<>> /\ pc = "read" /\ i = 1
    /\ out = <<>> /\ origin = <<>>
    /\ IdleMerge

\* line 116: const raw = fs.readFileSync(FILE, 'utf8')
MainRead ==
    /\ pc = "read"
    /\ \/ /\ disk.file.kind # "absent"
          /\ raw' = disk.file
          /\ pc' = "parse"
       \/ /\ pc' = "threw"
          /\ UNCHANGED raw
    /\ UNCHANGED <<prog, list, i, out, origin, disk>>
    /\ UNCHANGED mergeVars

\* line 117: const data = JSON.parse(raw)
MainParse ==
    /\ pc = "parse"
    /\ IF raw.kind = "json"
       THEN list' = parse(raw) /\ pc' = "backup"
       ELSE pc' = "threw" /\ UNCHANGED list
    /\ UNCHANGED <<prog, i, out, origin, disk, raw>>
    /\ UNCHANGED mergeVars

\* a failed backup write that main survives
MainBackupSwallowed ==
    /\ pc = "backup"
    /\ \/ disk' = [disk EXCEPT !.backup = stringify(list)]
       \/ disk' \in { [disk EXCEPT !.backup = t] : t \in {Absent, Garbage} }
    /\ pc' = "loop"
    /\ UNCHANGED <<prog, list, i, out, origin, raw>>
    /\ UNCHANGED mergeVars

\* line 119: fs.writeFileSync(BACKUP, JSON.stringify(data, null, 2)); a
\* write that throws leaves no file or a truncated one
MainBackup ==
    /\ pc = "backup"
    /\ \/ /\ disk' = [disk EXCEPT !.backup = stringify(list)]
          /\ pc' = "loop"
       \/ /\ disk' \in { [disk EXCEPT !.backup = t] : t \in {Absent, Garbage} }
          /\ pc' = "threw"
    /\ UNCHANGED <<prog, list, i, out, origin, raw>>
    /\ UNCHANGED mergeVars

\* line 123: fs.writeFileSync(FILE, JSON.stringify(deduped, null, 2)); a
\* write that throws leaves the file as it was or truncated
MainWrite ==
    /\ pc = "done"
    /\ \/ /\ disk' = [disk EXCEPT !.file = stringify(out)]
          /\ pc' = "written"
       \/ /\ disk' \in { [disk EXCEPT !.file = t] : t \in {disk.file, Garbage} }
          /\ pc' = "threw"
    /\ UNCHANGED <<prog, list, i, out, origin, raw>>
    /\ UNCHANGED mergeVars

NextMain ==
    MainRead \/ MainParse \/ MainBackup \/ DedupeIter \/ DedupeReturn \/ MainWrite

SpecMain == InitMain /\ [][NextMain]_vars

-----------------------------------------------------------------------------
(* Properties                                                              *)

groupableSlots(arr) == { k \in 1..Len(arr) : ~ungroupable(arr[k]) }

distance(v, o) == haversineMeters(v.lat.n, v.lon.n, o.lat.n, o.lon.n)

\* C1: Idempotence of the Deduplicator: when dedupe has returned out,
\* dedupe(out) is out again (same length, same entries, same order).
C1_Idempotent ==
    (prog = "dedupe" /\ pc = "done") => dedupe(out) = out

\* C2: Post-condition of dedupe: when dedupe has returned, no two distinct
\* output entries with numeric lat and lon satisfy the match predicate
\* (distance <= 60 m, or distance <= 200 m and similar names).
C2_NoMatchingPair ==
    (prog = "dedupe" /\ pc = "done") =>
        \A k, m \in groupableSlots(out) :
            k # m =>
              ~(\/ distance(out[k], out[m]) <= TightRadius
                \/ /\ distance(out[k], out[m]) <= LooseRadius
                   /\ nameSimilar(out[k].name, out[m].name))

\* C3: Order preservation: a step of dedupe leaves every existing slot at
\* its index with the same first contributing input record, changes at most
\* one existing slot and only when it appends nothing, appends at most one
\* slot at the end, and the first contributors of the slots are in input
\* order.
C3_OrderPreserved ==
    [][DedupeIter =>
         /\ Len(out') \in {Len(out), Len(out) + 1}
         /\ Len(origin') = Len(out')
         /\ \A k \in 1..Len(out) : Head(origin'[k]) = Head(origin[k])
         /\ Len(out') = Len(out) + 1 => SubSeq(out', 1, Len(out)) = out
         /\ Cardinality({ k \in 1..Len(out) : out'[k] # out[k] }) <= 1
         /\ \A k, m \in 1..Len(out') :
               k < m => Head(origin'[k]) < Head(origin'[m])]_vars

\* C3 witness: a record was merged into a slot that is not the last one.
C3_Witness ==
    /\ prog = "dedupe"
    /\ \E k \in 1..(Len(out) - 1) :
          /\ Len(origin[k]) >= 2
          /\ origin[k][2] > Head(origin[k + 1])

\* a record whose lat or lon is missing (null, undefined) or not a number
missingCoordinate(v) == v.lat.t # "number" \/ v.lon.t # "number"

\* C4: Ungroupable pass-through, in dedupe and in dedupeVenues: every
\* processed input record without a numeric lat or lon is an output entry
\* of its own, equal to the input record, with no other record merged in.
C4_UngroupablePassThrough ==
    \A p \in 1..(i - 1) :
        missingCoordinate(list[p]) =>
            \E k \in 1..Len(out) : origin[k] = <<p>> /\ out[k] = list[p]

\* C4 witness: the function has returned on an input holding an ungroupable
\* record followed by a groupable record of the same name.
C4_Witness ==
    /\ pc = "done"
    /\ \E p, q \in 1..Len(list) :
          /\ p < q
          /\ missingCoordinate(list[p]) /\ ~missingCoordinate(list[q])
          /\ list[p].name = list[q].name

\* a field that is present (non-empty): a coordinate that is neither null
\* nor undefined, any other field a non-empty string
Present(f, x) ==
    IF f \in {"lat", "lon"} THEN x.t \notin {"undefined", "null"} ELSE Truthy(x)

\* C5: Merge non-loss, in merge and in mergeVenues: a field present in
\* either argument is present in the result, with the value of one of them.
C5_MergeNonLoss ==
    mpc \in {"merge", "mergeVenues"} =>
        \A f \in Fields :
            (Present(f, ma[f]) \/ Present(f, mb[f])) =>
                /\ Present(f, merged[f])
                /\ merged[f] \in {ma[f], mb[f]}

\* C5 witness: the primary lacks a url and a coordinate that the other
\* record has.
C5_Witness ==
    /\ mpc = "merge" /\ locals.chosen = "b"
    /\ Truthy(ma.url) /\ ~Truthy(mb.url) /\ merged.url = ma.url
    /\ \E f \in {"lat", "lon"} : Present(f, ma[f]) /\ ~Present(f, mb[f])

\* the incoming record of a loop step is groupable and lies within the
\* tight radius of a groupable output entry
withinTight ==
    /\ pc = "loop" /\ i <= Len(list)
    /\ ~ungroupable(list[i])
    /\ \E k \in groupableSlots(out) : distance(list[i], out[k]) <= TightRadius

\* C6 as stated: in both deduplicators, a record within the tight radius of
\* an output entry is merged and not appended.
C6_TightMergesInBoth ==
    [][((DedupeIter \/ DedupeVenuesIter) /\ withinTight) =>
          Len(out') = Len(out)]_vars

\* C6 amended: in dedupe of the script, a record within the tight radius of
\* an output entry is merged into an existing entry and not appended,
\* whatever the two names are.
C6_TightMergesInScript ==
    [][(DedupeIter /\ withinTight) =>
          /\ Len(out') = Len(out)
          /\ \E k \in 1..Len(out) : origin'[k] = Append(origin[k], i)]_vars

\* C6 witness: dedupe merged two records within the tight radius whose
\* names are not similar.
C6_Witness ==
    /\ prog = "dedupe"
    /\ \E k \in 1..Len(out) :
          /\ Len(origin[k]) = 2
          /\ distance(list[origin[k][1]], list[origin[k][2]]) <= TightRadius
          /\ ~nameSimilar(list[origin[k][1]].name, list[origin[k][2]].name)

\* C7: Loose-radius rule in dedupe: a groupable record farther than 60 m
\* from every groupable entry is merged into entry o only if it is within
\* 200 m of o and their names are similar, both normalizing to a non-empty
\* string; when every entry is farther than 200 m or one of the two names
\* normalizes to the empty string, the record is appended.
C7_LooseRule ==
    [][(/\ DedupeIter
        /\ ~ungroupable(list[i])
        /\ \A k \in groupableSlots(out) : distance(list[i], out[k]) > TightRadius)
       =>
       /\ \A k \in 1..Len(out) :
             origin'[k] # origin[k] =>
                /\ ~ungroupable(out[k])
                /\ distance(list[i], out[k]) <= LooseRadius
                /\ nameSimilar(list[i].name, out[k].name)
                /\ normalizeName(list[i].name) # <<>>
                /\ normalizeName(out[k].name) # <<>>
       /\ (\A k \in groupableSlots(out) :
              \/ distance(list[i], out[k]) > LooseRadius
              \/ normalizeName(list[i].name) = <<>>
              \/ normalizeName(out[k].name) = <<>>)
          => out' = Append(out, list[i])]_vars

\* C7 witness: a record whose name normalizes to the empty string was
\* appended although an entry lay within the loose radius.
C7_Witness ==
    /\ prog = "dedupe"
    /\ \E k, m \in groupableSlots(out) :
          /\ k < m
          /\ Len(origin[k]) = 1 /\ Len(origin[m]) = 1
          /\ distance(out[k], out[m]) > TightRadius
          /\ distance(out[k], out[m]) <= LooseRadius
          /\ Truthy(out[m].name) /\ normalizeName(out[m].name) = <<>>

presentCount(v) == Cardinality({ f \in RichFields : Truthy(v[f]) })

\* C8: Primary selection in merge(existing, incoming): the richness score
\* is the count of present url, postcode, phone, rating, price_level plus
\* the source rank; the primary is the record of strictly higher rank, at
\* equal ranks the record of strictly higher richness, and existing when
\* both are equal.
C8_PrimarySelection ==
    mpc = "merge" =>
        /\ locals.ar = presentCount(ma) + locals.aw
        /\ locals.br = presentCount(mb) + locals.bw
        /\ locals.aw > locals.bw => locals.chosen = "a"
        /\ locals.bw > locals.aw => locals.chosen = "b"
        /\ (locals.aw = locals.bw /\ locals.ar > locals.br) => locals.chosen = "a"
        /\ (locals.aw = locals.bw /\ locals.br > locals.ar) => locals.chosen = "b"
        /\ (locals.aw = locals.bw /\ locals.ar = locals.br) => locals.chosen = "a"

\* C8 witness: the incoming record is richer and of a lower rank, and the
\* existing record is the primary.
C8_Witness ==
    /\ mpc = "merge"
    /\ locals.bw < locals.aw /\ locals.br > locals.ar
    /\ locals.chosen = "a"

\* hi is of a google/places source and has no url, lo is of osm and has a
\* url, and they are equally rich otherwise
trustCase(hi, lo) ==
    /\ hi.source = Str(sGoogle) /\ ~Truthy(hi.url)
    /\ lo.source = Str(sOsm) /\ Truthy(lo.url)
    /\ presentCount(hi) + 1 = presentCount(lo)

\* C9: Source-trust resolution in mergeVenues: the result of merging a
\* google record without url and an osm record with a url, otherwise
\* equally rich, has the google record's source and the osm record's url,
\* whichever of the two is the target.
C9_TrustResolutionApi ==
    mpc = "mergeVenues" =>
        /\ trustCase(ma, mb) => (merged.source = ma.source /\ merged.url = mb.url)
        /\ trustCase(mb, ma) => (merged.source = mb.source /\ merged.url = ma.url)

\* a non-empty source tag that neither ranking table knows
unrecognized(s) ==
    /\ Truthy(s)
    /\ toLowerCase(s.s) \notin DOMAIN PriorityMap
    /\ \A w \in {sGoogle, sPlaces, sGmaps, sOsm, sOpenstreetmap} :
          ~includes(toLowerCase(s.s), w)

\* C10: Source-trust ranking, of sourceWeight and of sourcePriority: an
\* unrecognized source tag ranks zero, as a missing source does, and
\* manual ranks above zero, below osm, which ranks below google.
C10_SourceRanking ==
    mpc \in {"merge", "mergeVenues"} =>
        /\ ~Truthy(ma.source) => locals.aw = 0
        /\ unrecognized(ma.source) => locals.aw = 0
        /\ (ma.source = Str(sManual) /\ mb.source = Str(sOsm)) =>
              (0 < locals.aw /\ locals.aw < locals.bw)
        /\ (ma.source = Str(sOsm) /\ mb.source = Str(sGoogle)) =>
              locals.aw < locals.bw

\* the groupable slots of arr that record v matches: within the tight
\* radius, or within the loose radius with a similar name
matchingSlots(arr, v) ==
    { k \in 1..Len(arr) :
        /\ ~missingCoordinate(arr[k])
        /\ \/ distance(v, arr[k]) <= TightRadius
           \/ /\ distance(v, arr[k]) <= LooseRadius
              /\ nameSimilar(v.name, arr[k].name) }

\* C12: First-match fold: a groupable record that matches at least one
\* output entry, tested against the entries as they are now, is merged into
\* the matching entry of the smallest index, by merge of that entry's
\* current record and the record; every other slot is unchanged.
C12_FirstMatchFold ==
    [][(/\ DedupeIter
        /\ ~missingCoordinate(list[i])
        /\ matchingSlots(out, list[i]) # {})
       =>
       LET first == CHOOSE k \in matchingSlots(out, list[i]) :
                       \A m \in matchingSlots(out, list[i]) : k <= m
       IN  /\ Len(out') = Len(out)
           /\ out'[first] = merge(out[first], list[i])
           /\ \A k \in 1..Len(out) : k # first => out'[k] = out[k]]_vars

\* C12 witness: a slot holds three records, the third of which matched the
\* slot's merged record and does not match the record first appended to it.
C12_Witness ==
    /\ prog = "dedupe"
    /\ \E k \in 1..Len(out) :
          /\ Len(origin[k]) = 3
          /\ matchingSlots(<<list[origin[k][1]]>>, list[origin[k][3]]) = {}
          /\ out[k] = merge(merge(list[origin[k][1]], list[origin[k][2]]),
                            list[origin[k][3]])

\* the record that folding the input records at positions ps, in that
\* order, leaves in a slot
RECURSIVE folded(_, _)
folded(arr, ps) ==
    IF Len(ps) = 1 THEN arr[ps[1]]
    ELSE merge(folded(arr, SubSeq(ps, 1, Len(ps) - 1)), arr[ps[Len(ps)]])

RECURSIVE mergesIn(_)
mergesIn(slots) ==
    IF slots = <<>> THEN 0 ELSE (Len(Head(slots)) - 1) + mergesIn(Tail(slots))

\* C13: Record conservation: after any prefix of the input every processed
\* record belongs to exactly one output slot, whose record is that record
\* unchanged or the result of the merges of its records; the output length
\* is the number of processed records minus the number of merges, at most
\* the input length, and zero for an empty input.
C13_RecordConservation ==
    prog = "dedupe" =>
        /\ Len(origin) = Len(out)
        /\ \A p \in 1..(i - 1) :
              Cardinality({ k \in 1..Len(origin) :
                              \E q \in 1..Len(origin[k]) : origin[k][q] = p }) = 1
        /\ \A k \in 1..Len(origin) :
              /\ origin[k] # <<>>
              /\ \A q \in 1..Len(origin[k]) : origin[k][q] \in 1..(i - 1)
              /\ \A q, r \in 1..Len(origin[k]) : q < r => origin[k][q] < origin[k][r]
              /\ out[k] = folded(list, origin[k])
        /\ Len(out) = (i - 1) - mergesIn(origin)
        /\ Len(out) <= Len(list)
        /\ list = <<>> => out = <<>>

\* C13 witness: dedupe has returned after one append without merge and two
\* merges into one slot.
C13_Witness ==
    /\ prog = "dedupe" /\ pc = "done"
    /\ Len(list) = 3 /\ Len(out) = 1 /\ mergesIn(origin) = 2

\* a record whose lat or lon is present and is not a number
malformed(v) ==
    \E f \in {"lat", "lon"} : v[f].t \notin {"undefined", "null", "number"}

\* C11: Malformed records are rejected: when the data hold a record whose
\* lat or lon is present and not a number, no such record is in the output
\* of dedupe and main does not come to write the deduplicated file.
C11_MalformedRejected ==
    (\E k \in 1..Len(list) : malformed(list[k])) =>
        /\ \A k \in 1..Len(out) : ~malformed(out[k])
        /\ pc # "written"
        /\ disk.file \in {raw, Garbage}

\* C15: Backup before overwrite in main: a step that changes the data file
\* is the write of line 123 and finds a complete backup that parses to the
\* records of the data file it overwrites; a step that changes the backup
\* is the write of line 119, after the read and the parse, and leaves the
\* data file alone; a step on which the read, the parse or the backup
\* write throws leaves the data file as it was, and a failed read or parse
\* the backup too.
C15_BackupBeforeOverwrite ==
    [][/\ disk'.file # disk.file =>
             /\ pc = "done"
             /\ disk.backup.kind = "json"
             /\ parse(disk.backup) = parse(disk.file)
             /\ parse(disk.backup) = list
       /\ disk'.backup # disk.backup =>
             /\ pc = "backup" /\ raw.kind = "json" /\ list = parse(raw)
             /\ disk'.file = disk.file
       /\ (pc \in {"read", "parse"} /\ pc' = "threw") => disk' = disk
       /\ (pc = "backup" /\ pc' = "threw") => disk'.file = disk.file
       /\ pc = "threw" => disk' = disk]_vars

\* C15 witness: main has overwritten a data file that was not written with
\* the indentation of the backup, with fewer records than it held.
C15_Witness ==
    /\ pc = "written"
    /\ raw.kind = "json" /\ raw.indent = 0
    /\ disk.backup # raw /\ parse(disk.backup) = parse(raw)
    /\ disk.file = stringify(out) /\ Len(out) < Len(list)

\* a record with numeric coordinates one of which is 0
zeroCoordinate(v) ==
    /\ v.lat.t = "number" /\ v.lon.t = "number"
    /\ (v.lat.n = 0 \/ v.lon.n = 0)

\* C14: Zero is a present coordinate: dedupe merges a record with lat = 0
\* or lon = 0 into the first entry it matches, and merges a record into an
\* entry with lat = 0 or lon = 0 that it matches, as it does any groupable
\* record; merge returns the primary's lat and lon unless they are null or
\* undefined (0 included), and the secondary's only then.
C14_ZeroIsPresent ==
    [][/\ (/\ DedupeIter
           /\ ~missingCoordinate(list[i])
           /\ \/ zeroCoordinate(list[i])
              \/ \E k \in matchingSlots(out, list[i]) : zeroCoordinate(out[k]))
          =>
          IF matchingSlots(out, list[i]) # {}
          THEN /\ Len(out') = Len(out)
               /\ \E k \in matchingSlots(out, list[i]) :
                     out'[k] = merge(out[k], list[i])
          ELSE out' = Append(out, list[i])
       /\ MergeCall =>
            LET primary   == IF locals'.chosen = "a" THEN ma ELSE mb
                secondary == IF locals'.chosen = "a" THEN mb ELSE ma
            IN  \A f \in {"lat", "lon"} :
                   merged'[f] = IF primary[f].t \in {"undefined", "null"}
                                THEN secondary[f] ELSE primary[f]]_vars

\* C14 witness: merge has kept the primary's coordinate 0 although the
\* secondary's coordinate is another number.
C14_Witness ==
    /\ mpc = "merge" /\ locals.chosen = "a"
    /\ \E f \in {"lat", "lon"} :
          ma[f] = Num(0) /\ mb[f].t = "number" /\ mb[f] # Num(0) /\ merged[f] = Num(0)

max(x, y) == IF x >= y THEN x ELSE y

\* C16: Monotone cluster quality: a step of dedupe lowers no slot's source
\* rank or richness score and leaves a groupable slot groupable; the rank
\* of merge(a, b) is the greater of the two ranks and its richness score is
\* at least the greater of the two scores.
C16_MonotoneQuality ==
    [][/\ DedupeIter =>
            \A k \in 1..Len(out) :
               /\ sourceWeight(out'[k].source) >= sourceWeight(out[k].source)
               /\ richnessScore(out'[k]) >= richnessScore(out[k])
               /\ ~missingCoordinate(out[k]) => ~missingCoordinate(out'[k])
       /\ MergeCall =>
            /\ sourceWeight(merged'.source)
                 = max(sourceWeight(ma.source), sourceWeight(mb.source))
            /\ richnessScore(merged') >= max(richnessScore(ma), richnessScore(mb))]_vars

\* C16 witness: a slot of dedupe holds the merge of two records, of a higher
\* rank than the record first appended and richer than both.
C16_Witness ==
    /\ prog = "dedupe"
    /\ \E k \in 1..Len(out) :
          /\ Len(origin[k]) = 2
          /\ ~missingCoordinate(out[k])
          /\ sourceWeight(out[k].source) > sourceWeight(list[origin[k][1]].source)
          /\ richnessScore(out[k]) > richnessScore(list[origin[k][1]])
          /\ richnessScore(out[k]) > richnessScore(list[origin[k][2]])

====
